---- MODULE Spec2Model ----
(***************************************************************************)
(* Model of the DocMLx presentation-summarization pipeline:                *)
(*   app/pipeline/presentation_summarization.py  gen_summary               *)
(*   app/schema/results/document.py              Document, add_history     *)
(*   app/repositories/document_sync.py           the document store        *)
(*   app/hooks/registry.py                       execute_hooks             *)
(*   app/service/lm/ppt/...                      the extraction backends   *)
(*                                                                         *)
(* One gen_summary call is a process p \in Procs.  It suspends at every    *)
(* blocking backend call, so the task is cut into one action per stage;    *)
(* each action is the code between two suspension points.                  *)
(*                                                                         *)
(* Abstractions.  Timestamps (date_created, run_date, history timestamp)   *)
(* are left out.  Texts are short strings; the value a backend extracts    *)
(* is a function of the bytes it reads (Title(h), AuthorsOf(h), ...), the  *)
(* kind of outcome (value, sentinel, exception) is the environment's       *)
(* choice.  None is the string "None"; a None list is <<>>.  The variable  *)
(* profile fixes which outcomes the environment produces in a behaviour:   *)
(* "nominal" (a value or an exception at every backend, any file, hooks    *)
(* configured), "lm" (also model invocations failing inside a backend),    *)
(* "text" (also every shape of summary text, and no date found), "conc"    *)
(* (overlapping forced calls), "rerun" (a run and its re-run, each backend *)
(* answering, a date and a known target found or not), "hooks" and "batch" *)
(* (execute_hooks and the batch reduction of generate_short_summary on     *)
(* their own, over bounded inputs).                                        *)
(*                                                                         *)
(* LanguageModel.__init__ (app/core/llm.py:6) declares model_type.  The    *)
(* topic, target, date and context-filter backends construct it with the   *)
(* keyword `type`, a call that raises TypeError before their try block.    *)
(* The constructor's outcome is kept an environment choice for every       *)
(* backend (it also raises ImportError when the client library is          *)
(* absent), a superset of what this build produces, so that the stages     *)
(* behind Topic Extraction are exercised as well.                          *)
(***************************************************************************)
EXTENDS Integers, Sequences, FiniteSets, TLC

VARIABLES
    file,        \* the bytes at file_location: [kind, hash]
    store,       \* the "documents" collection, in natural (insertion) order
    ncalls,      \* number of gen_summary calls started
    profile,     \* which environment outcomes are enabled
    hooks_post,  \* os.getenv("HOOKS_POST"): "None" or a pipeline name
    last_fp,     \* fingerprint of the latest run whose PERSIST wrote the store
    pc,          \* per call: position in gen_summary
    loc,         \* per call: the local variables of gen_summary
    obs,         \* per call: what the call did (observations for the claims)
    registry,    \* app/hooks/registry.py pipeline_hooks: name -> list of hooks
    dispatch,    \* the latest execute_hooks call made on its own
    batch        \* one generate_short_summary reduction, step by step

\* The state outside gen_summary's own calls.
unit == <<registry, dispatch, batch>>

vars == <<file, store, ncalls, profile, hooks_post, last_fp, pc, loc, obs, unit>>

----------------------------------------------------------------------------
\* Bounds of the model

MaxCalls == 3
MaxCallsLm == 1
MaxCallsText == 1
MaxCallsConc == 3    \* gen_summary calls in a behaviour with overlapping calls
MaxCallsRerun == 2   \* gen_summary calls in a behaviour of the profile "rerun"
MaxSlides == 4       \* slides given to one generate_short_summary reduction
MaxBatchSize == 3    \* BATCH_1_SIZE and BATCH_N_SIZE range over 0..MaxBatchSize
MaxMiddleSize == 2   \* MIDDLE_BATCH_SIZE ranges over 1..MaxMiddleSize
MaxHooks == 3        \* register_hook calls in one behaviour of the dispatcher

\* The worker pool: two Celery workers.
Procs == {1, 2}

\* The single logical path the calls work on, and the caller's origin paths.
FilePath == "/uploads/Rho_deck.pdf"
ExtPaths == IF profile = "nominal" THEN {"ext/one", "ext/two"} ELSE {"ext/one"}

\* File contents: two PDF byte strings; under the nominal profile also a
\* non-PDF file and no file at all.
Hashes == {"h1", "h2"}
NoFile == [kind |-> "missing", hash |-> "None"]
FilesOf(prof) ==
    {[kind |-> "PDF", hash |-> h] : h \in Hashes}
        \cup (IF prof = "nominal"
              THEN {NoFile, [kind |-> "TEXT", hash |-> "h1"]} ELSE {})
Files == FilesOf(profile)

----------------------------------------------------------------------------
\* Document (app/schema/results/document.py)

NoDoc == [id |-> 0]

IsDoc(d) == d.id # 0

\* Document(id=..., file_path=..., ext_path=...): the defaults of the fields.
NewDocument(id, path, ext) ==
    [id |-> id, run_id |-> 0, file_path |-> path, file_type |-> "None",
     ext_path |-> ext, doc_hash |-> "None", date_published |-> "None",
     authors |-> <<>>, per_slide_summary |-> <<>>, short_summary |-> "None",
     title |-> "None", target |-> "None", tags |-> <<>>, history |-> <<>>]

\* An entry stamped with the run after this one.
PipelineHistoryAhead(rid, step, status, details) ==
    [run_id |-> rid + 1, step |-> step, status |-> status, details |-> details]

PipelineHistory(rid, step, status, details) ==
    [run_id |-> rid, step |-> step, status |-> status, details |-> details]

\* Document.add_history: append one entry, nothing else changes.
\* add_history putting the entry in front.
add_history_first(d, rid, step, status, details) ==
    [d EXCEPT !.history = <<PipelineHistory(rid, step, status, details)>> \o @]

add_history(d, rid, step, status, details) ==
    [d EXCEPT !.history = Append(@, PipelineHistory(rid, step, status, details))]

\* Document.json_serializable: every modelled field is copied as it is.
json_serializable(d) == d

----------------------------------------------------------------------------
\* Text helpers

RECURSIVE Join(_, _)
\* sep.join(parts)
Join(parts, sep) ==
    IF Len(parts) = 0 THEN ""
    ELSE IF Len(parts) = 1 THEN parts[1]
    ELSE parts[1] \o sep \o Join(Tail(parts), sep)

\* str.lower() on the strings the model uses
Lower(s) ==
    CASE s = "Rho" -> "rho"
      [] s = "PknB" -> "pknb"
      [] s = "Kinase" -> "kinase"
      [] s = "Unknown" -> "unknown"
      [] OTHER -> s

\* str.strip() on the strings the model uses
Strip(s) ==
    CASE s = " PknB " -> "PknB"
      [] s = " " -> ""
      [] OTHER -> s

\* The gazetteer app/constants/target_names.py, as create_target_names.py
\* writes it: stripped, lower-cased, deduplicated names.
target_names == {"rho", "pknb"}

\* The texts a summarizer can return, with what the tokenizers see in them.
count_words_nltk(s) ==
    CASE s = "para100" -> 100
      [] s = "para155" -> 155
      [] s = "para200" -> 200
      [] s = "list100" -> 100
      [] s = "list200" -> 200
      [] s = "Unknown" -> 1
      [] s = "Summary not available." -> 3
      [] s = "An unexpected error occurred. Please try again later." -> 8
      [] OTHER -> 0

contains_bullet_points(s) == s \in {"list100", "list200"}

\* What the backends read out of the bytes with fingerprint h.
AuthorsOf(h) == <<"Ana " \o h, "Ben">>
TitleOf(h) == "Title " \o h
SlidesOf(h) == <<"slide one " \o h, "slide two">>
DateOf(h) == "2021-03-01"

----------------------------------------------------------------------------
\* The document store (app/repositories/document_sync.py)

Matches(coll, field, value) == {i \in 1..Len(coll) : coll[i][field] = value}

First(S) == CHOOSE i \in S : \A j \in S : i <= j

\* collection.find_one({field: value}): the first match in natural order, or None
find_one(coll, field, value) ==
    IF Matches(coll, field, value) = {} THEN NoDoc
    ELSE coll[First(Matches(coll, field, value))]

\* get_document_by_file_path_sync
get_document_by_file_path_sync(coll, path) == find_one(coll, "file_path", path)

\* A write that inserts whatever the collection holds.
insert_one(coll, d) == Append(coll, d)

\* collection.replace_one({"id": d.id}, d, upsert=True)
replace_one(coll, d) ==
    IF Matches(coll, "id", d.id) = {} THEN Append(coll, d)
    ELSE [coll EXCEPT ![First(Matches(coll, "id", d.id))] = d]

\* save_document_sync whose failure comes after the write went through.
save_document_sync_late(coll, d, outcome) == replace_one(coll, json_serializable(d))

\* save_document_sync: the write, or HTTPException on a PyMongoError
save_document_sync(coll, d, outcome) ==
    IF outcome = "error" THEN coll ELSE replace_one(coll, json_serializable(d))

\* uuid4(): an identifier no record and no running call holds
UsedIds ==
    {store[i].id : i \in 1..Len(store)}
        \cup {loc[p].document.id : p \in Procs}
        \cup {loc[p].existing.id : p \in Procs}

FreshId == CHOOSE i \in 1..(Len(store) + 2 * Cardinality(Procs) + 1) :
              /\ i \notin UsedIds
              /\ \A j \in 1..(i - 1) : j \in UsedIds

----------------------------------------------------------------------------
\* Hooks (app/hooks/registry.py)

\* A registered callable: its name in the log, whether it has a __name__ at
\* all (a function has; a functools.partial or an instance with __call__
\* has not), and whether calling it raises.
Hook(name, named, raises) == [name |-> name, named |-> named, raises |-> raises]

\* hooks/post/post_daikon.py: a function that catches its own exceptions.
post_to_daikon == Hook("post_to_daikon", TRUE, FALSE)

\* The registry after load_hooks_from_directory over app/hooks.
LoadedRegistry == [pipeline \in {"post"} |-> <<post_to_daikon>>]

\* pipeline_hooks.get(pipeline, [])
pipeline_hooks(pipeline) ==
    IF pipeline \in DOMAIN registry THEN registry[pipeline] ELSE <<>>

\* register_hook: the list of the pipeline, created when absent, gets the
\* hook appended; the log line comes after the append.
register_hook(reg, pipeline, hook) ==
    IF pipeline \in DOMAIN reg
    THEN [reg EXCEPT ![pipeline] = Append(@, hook)]
    ELSE [n \in DOMAIN reg \cup {pipeline} |->
             IF n = pipeline THEN <<hook>> ELSE reg[n]]

RECURSIVE RunHooks(_, _)
\* The loop of execute_hooks over the hooks left.  The try block reads
\* hook.__name__ for its log line before it calls the hook, and the except
\* clause reads it again: for a hook without __name__ the AttributeError
\* of the handler leaves the loop, the hook uncalled.  An exception of a
\* called hook is caught and the loop goes on.
RunHooks(hooks, document) ==
    IF hooks = <<>> THEN [calls |-> <<>>, raised |-> FALSE]
    ELSE IF ~Head(hooks).named THEN [calls |-> <<>>, raised |-> TRUE]
    ELSE LET rest == RunHooks(Tail(hooks), document)
         IN  [calls |-> <<[hook |-> Head(hooks), document |-> document]>>
                            \o rest.calls,
              raised |-> rest.raised]

\* execute_hooks: the calls made, in order, and whether it raised.
execute_hooks(pipeline, document) == RunHooks(pipeline_hooks(pipeline), document)

\* No pipeline configured: nothing is dispatched.
NoDispatch == [calls |-> <<>>, raised |-> FALSE]

----------------------------------------------------------------------------
\* Backends.  Each takes the environment's outcome o and returns what the
\* orchestrator sees: a value, or an exception that reaches it.

Returned(v) == [raised |-> FALSE, value |-> v, msg |-> ""]
Raised(m) == [raised |-> TRUE, value |-> "None", msg |-> m]

\* Outcomes the environment can produce, by profile.  "value": the model
\* answers; "lm_error": chain.invoke raises inside the backend's try;
\* "raise": an exception outside the backend's try (the constructor).
LmOutcomes ==
    CASE profile = "lm" -> {"value", "lm_error", "raise"}
      [] profile \in {"conc", "rerun"} -> {"value"}
      [] OTHER -> {"value", "raise"}

\* Strings the target model can answer with.
TargetResponses ==
    CASE profile \in {"nominal", "conc", "rerun"} -> {"Rho", "Kinase"}
      [] profile = "text" -> {" PknB ", "Kinase"}
      [] OTHER -> {"Rho"}

\* Texts generate_short_summary, filter_bullets_summary, shorten_summary
\* can come back with.
GeneratedSummaries ==
    IF profile = "text" THEN {"para100", "para155", "para200", "list100", "list200"}
    ELSE {"para100"}

RewrittenSummaries ==
    IF profile = "text" THEN {"para100", "para200", "list200"}
    ELSE {"para100"}

\* extract_author_from_first_page with chain.invoke outside the try block.
extract_author_unguarded(o, h) ==
    CASE o = "raise" -> Raised("ImportError")
      [] o = "lm_error" -> Raised("ConnectionError")
      [] OTHER -> Returned(AuthorsOf(h))

\* extract_author_from_first_page
extract_author_from_first_page(o, h) ==
    CASE o = "raise" -> Raised("ImportError")
      [] o = "lm_error" -> Returned(<<"Unknown">>)
      [] OTHER -> Returned(AuthorsOf(h))

\* extract_topic_from_first_page
extract_topic_from_first_page(o, h) ==
    CASE o = "raise" -> Raised("TypeError")
      [] o = "lm_error" -> Returned("Unknown")
      [] OTHER -> Returned(TitleOf(h))

\* create_summary_list: a slide whose summarization fails contributes a
\* sentinel string; only the code around the per-slide try can raise.
create_summary_list(o, h) ==
    CASE o = "raise" -> Raised("TabulateError")
      [] o = "lm_error" -> Returned(<<"Unknown", "slide two">>)
      [] OTHER -> Returned(SlidesOf(h))

\* generate_short_summary: the sentinel for empty input, the sentinel of
\* its except clauses, or the refined summary text.  It never raises.
generate_short_summary(o, content, text) ==
    IF Len(content) = 0 \/ \A i \in 1..Len(content) : Strip(content[i]) = ""
    THEN Returned("Summary not available.")
    ELSE IF o = "lm_error" THEN Returned("Unknown")
    ELSE Returned(text)

\* filter_bullets_summary
filter_bullets_summary(o, content, text) ==
    IF Strip(content) = "" THEN "Summary not available."
    ELSE IF o = "lm_error" THEN "An unexpected error occurred. Please try again later."
    ELSE text

\* shorten_summary
shorten_summary(o, content, text) ==
    IF Strip(content) = "" THEN "Summary not available."
    ELSE IF o = "lm_error" THEN "An unexpected error occurred. Please try again later."
    ELSE text

\* ValidateTarget with the membership test left out.
ValidateTargetUnchecked(response) == Strip(response)

\* Lines 60-65 and 124-129 of target_extractor.py: the gazetteer gate.
ValidateTarget(response) ==
    IF Lower(Strip(response)) \in target_names THEN Strip(response) ELSE "Unknown"

\* extract_target_from_first_page
extract_target_from_first_page(o, response) ==
    CASE o = "raise" -> Raised("TypeError")
      [] o = "lm_error" -> Returned("Unknown")
      [] OTHER -> Returned(ValidateTarget(response))

\* extract_target_from_summary
extract_target_from_summary(o, response) ==
    CASE o = "raise" -> Raised("TypeError")
      [] o = "lm_error" -> Returned("Unknown")
      [] OTHER -> Returned(ValidateTarget(response))

\* extract_date (app/service/nlp/ppt/date_extractor.py): a datetime, None,
\* or an exception of dateparser or of the model-backed fallback.
DateOutcomes ==
    CASE profile = "text" -> {"value", "none", "raise"}
      [] profile = "rerun" -> {"value", "none"}
      [] profile = "conc" -> {"value"}
      [] OTHER -> {"value", "raise"}

extract_date(o, h) ==
    CASE o = "raise" -> Raised("TypeError")
      [] o = "none" -> Returned("None")
      [] OTHER -> Returned(DateOf(h))

\* Outcomes of a store operation (a PyMongoError is the "error") and of
\* load_pdf_document ("empty": nothing to read on the first page).  Under
\* the profiles "conc" and "rerun" the store and the loader answer.
StoreOutcomes == IF profile \in {"conc", "rerun"} THEN {"ok"} ELSE {"ok", "error"}
LoadOutcomes == IF profile \in {"conc", "rerun"} THEN {"ok"} ELSE {"ok", "empty"}

\* get_file_type: libmagic's description, None for a missing file
get_file_type(f) ==
    CASE f.kind = "PDF" -> "PDF document, version 1.4"
      [] f.kind = "TEXT" -> "ASCII text"
      [] OTHER -> "None"

\* Any detected type is taken.
HasAnyType(t) == t # "None"

\* "PDF" in file_type
HasPDF(t) == t = "PDF document, version 1.4"

----------------------------------------------------------------------------
\* Initial state

IdleLoc ==
    [ext |-> "None", force |-> FALSE, document |-> NoDoc, existing |-> NoDoc,
     run_id |-> 0, pdf |-> "None", target |-> "unbound", result |-> "pending",
     ret |-> NoDoc]

IdleObs ==
    [fp |-> "None", prev_fp |-> "None", store0 |-> <<>>, invoked |-> <<>>,
     writes |-> 0, written |-> NoDoc, replaced |-> NoDoc,
     short_circuit |-> FALSE,
     lm_errors |-> {}, responses |-> <<>>, returned |-> <<>>,
     phase2_input |-> <<>>,
     summaries |-> <<>>,
     hooked |-> <<>>, exc |-> "None", raised_stage |-> "None",
     raised_msg |-> "None"]

\* No execute_hooks call of its own has been made.
IdleDispatch ==
    [pipeline |-> "None", registered |-> <<>>, calls |-> <<>>,
     raised |-> FALSE, done |-> FALSE]

\* No reduction is in progress.
IdleBatch ==
    [pc |-> "idle", content |-> <<>>, k1 |-> 0, k2 |-> 0, km |-> 1,
     BATCH_1_SIZE |-> 0, BATCH_N_SIZE |-> 0, batch_1 |-> <<>>, batch_n |-> <<>>,
     middle_content |-> <<>>, idx |-> 0, invoked |-> <<>>,
     batch_1_summary |-> "None", middle_summaries |-> <<>>,
     batch_n_summary |-> "None", passes |-> <<>>, result |-> "None"]

InitWith(prof) ==
    /\ file \in FilesOf(prof)
    /\ store = <<>>
    /\ ncalls = 0
    /\ profile = prof
    /\ hooks_post \in (IF prof = "lm" THEN {"None", "post"} ELSE {"post"})
    /\ last_fp = "None"
    /\ pc = [p \in Procs |-> "idle"]
    /\ loc = [p \in Procs |-> IdleLoc]
    /\ obs = [p \in Procs |-> IdleObs]
    /\ registry = LoadedRegistry
    /\ dispatch = IdleDispatch
    /\ batch = IdleBatch

Init == InitWith("nominal")

InitLm == InitWith("lm")

InitText == InitWith("text")

InitConc == InitWith("conc")

InitRerun == InitWith("rerun")

\* The state in which nothing of gen_summary is running.
Quiet(prof) ==
    /\ file = NoFile
    /\ store = <<>>
    /\ ncalls = 0
    /\ profile = prof
    /\ hooks_post = "None"
    /\ last_fp = "None"
    /\ pc = [p \in Procs |-> "idle"]
    /\ loc = [p \in Procs |-> IdleLoc]
    /\ obs = [p \in Procs |-> IdleObs]

CallBudget ==
    CASE profile = "lm" -> MaxCallsLm
      [] profile = "text" -> MaxCallsText
      [] profile = "conc" -> MaxCallsConc
      [] profile = "rerun" -> MaxCallsRerun
      [] OTHER -> MaxCalls

----------------------------------------------------------------------------
\* The environment

\* upload_document (app/api/v1/mlx.py:33-36) or any other writer replaces
\* the bytes at file_location.  Files change between runs.
WriteFile(f) ==
    /\ \A p \in Procs : pc[p] = "idle"
    /\ ncalls < CallBudget
    /\ f # file
    /\ file' = f
    /\ UNCHANGED <<store, ncalls, profile, unit, hooks_post, last_fp, pc, loc, obs>>

\* gen_summary.delay(file_location, origin_ext_path, force_run): a worker
\* picks the task up: the first idle worker.  Calls overlap under the
\* profile "conc" only, where every call is a forced run; elsewhere one
\* call runs at a time.
Start(p, ext, force) ==
    /\ profile = "conc" \/ \A q \in Procs : pc[q] = "idle"
    /\ profile = "conc" => force
    /\ pc[p] = "idle"
    /\ p = First({q \in Procs : pc[q] = "idle"})
    /\ ncalls < CallBudget
    /\ ncalls' = ncalls + 1
    /\ pc' = [pc EXCEPT ![p] = "init"]
    /\ loc' = [loc EXCEPT ![p] = [IdleLoc EXCEPT !.ext = ext, !.force = force]]
    /\ obs' = [obs EXCEPT ![p] = [IdleObs EXCEPT !.store0 = store, !.prev_fp = last_fp]]
    /\ UNCHANGED <<file, store, profile, unit, hooks_post, last_fp>>

\* The task's result has been delivered; the worker is free again.
Finish(p) ==
    /\ pc[p] = "done"
    /\ pc' = [pc EXCEPT ![p] = "idle"]
    /\ loc' = [loc EXCEPT ![p] = IdleLoc]
    /\ obs' = [obs EXCEPT ![p] = IdleObs]
    /\ UNCHANGED <<file, store, ncalls, profile, unit, hooks_post, last_fp>>

----------------------------------------------------------------------------
\* gen_summary (app/pipeline/presentation_summarization.py)

RUN_POST_HOOKS == FALSE
SHORT_SUMMARY_THRESHOLD == 160

\* "Shorten the provided summary to 150 words or fewer": the cap the prompt
\* of shorten_summary asks the model for (short_summary.py:324, 333).
SHORTEN_WORD_CAP == 150

\* calculate_file_hash: the SHA-256 of the bytes; FileNotFoundError for a
\* missing file.
calculate_file_hash(f) ==
    IF f.kind = "missing" THEN Raised("FileNotFoundError") ELSE Returned(f.hash)

\* NextRunId without the increment.
NextRunIdStale(existing) ==
    IF IsDoc(existing) THEN existing.run_id ELSE 0

\* Lines 78-80: the run_id of this run.
NextRunId(existing) ==
    IF IsDoc(existing) THEN existing.run_id + 1 ELSE 0

\* Line 85: the stored record is authoritative.
SameHashNoForce(existing, doc_hash, force) ==
    existing.doc_hash = doc_hash /\ ~force

\* WithExtPath with line 83 forgotten.
WithExtPathKept(existing, ext) == existing

\* Lines 82-83: the caller's origin path is written into the loaded record.
WithExtPath(existing, ext) == [existing EXCEPT !.ext_path = ext]

\* Reprocess starting from the fresh document, history not carried over.
ReprocessFresh(document, existing, ext) == [document EXCEPT !.id = existing.id]

\* Lines 81-84 and 99: the working document of a re-run is a deep copy of
\* the loaded record (after line 83), which replaces the document of
\* lines 65-69 with its fresh doc_hash and file_type.
Reprocess(document, existing, ext) == WithExtPath(existing, ext)

\* An exception leaves gen_summary.
Escapes(p, exception) ==
    /\ pc' = [pc EXCEPT ![p] = "done"]
    /\ loc' = [loc EXCEPT ![p].result = "raised"]
    /\ obs' = [obs EXCEPT ![p].exc = exception]

\* Lines 89-92 and 354-357: the hooks of the pipeline HOOKS_POST names.
PostHooks(document) ==
    IF hooks_post # "None" THEN execute_hooks(hooks_post, document)
    ELSE NoDispatch

\* Lines 62-101: identity and fingerprint, store lookup, hash check.
Begin(p) ==
    /\ pc[p] = "init"
    /\ LET hashed == calculate_file_hash(file)
           fresh == [NewDocument(FreshId, FilePath, loc[p].ext) EXCEPT
                        !.file_type = get_file_type(file),
                        !.doc_hash = hashed.value]
       IN  IF hashed.raised
           THEN /\ Escapes(p, hashed.msg)
                /\ UNCHANGED <<file, store, ncalls, profile, unit, hooks_post, last_fp>>
           ELSE \E lookup \in StoreOutcomes :
                IF lookup = "error"
                THEN /\ pc' = [pc EXCEPT ![p] = "done"]
                     /\ loc' = [loc EXCEPT ![p].result = "raised",
                                           ![p].document = fresh]
                     /\ obs' = [obs EXCEPT ![p].exc = "HTTPException",
                                           ![p].fp = hashed.value]
                     /\ UNCHANGED <<file, store, ncalls, profile, unit, hooks_post, last_fp>>
                ELSE LET found == get_document_by_file_path_sync(store, FilePath)
                         existing == IF IsDoc(found)
                                     THEN WithExtPath(found, loc[p].ext) ELSE found
                         rid == NextRunId(found)
                     IN  IF IsDoc(found)
                            /\ SameHashNoForce(found, fresh.doc_hash, loc[p].force)
                         THEN \* lines 86-94: short-circuit
                              /\ pc' = [pc EXCEPT ![p] = "done"]
                              /\ loc' = [loc EXCEPT
                                    ![p].existing = existing,
                                    ![p].run_id = rid,
                                    ![p].document =
                                        [fresh EXCEPT !.id = found.id,
                                                      !.history = found.history],
                                    ![p].result =
                                        IF PostHooks(existing).raised
                                        THEN "raised" ELSE "document",
                                    ![p].ret =
                                        IF PostHooks(existing).raised
                                        THEN NoDoc ELSE json_serializable(existing)]
                              /\ obs' = [obs EXCEPT
                                    ![p].fp = hashed.value,
                                    ![p].short_circuit = TRUE,
                                    ![p].exc =
                                        IF PostHooks(existing).raised
                                        THEN "AttributeError" ELSE @,
                                    ![p].hooked = PostHooks(existing).calls]
                              /\ UNCHANGED <<file, store, ncalls, profile, unit,
                                             hooks_post, last_fp>>
                         ELSE \* lines 95-101
                              /\ pc' = [pc EXCEPT ![p] = "validate"]
                              /\ loc' = [loc EXCEPT
                                    ![p].existing = existing,
                                    ![p].run_id = rid,
                                    ![p].document =
                                        [(IF IsDoc(found)
                                          THEN Reprocess(fresh, found, loc[p].ext)
                                          ELSE fresh)
                                         EXCEPT !.run_id = rid]]
                              /\ obs' = [obs EXCEPT ![p].fp = hashed.value]
                              /\ UNCHANGED <<file, store, ncalls, profile, unit,
                                             hooks_post, last_fp>>

\* A return of None (the run is over, nothing is handed back).
ReturnsNone(p, document) ==
    /\ pc' = [pc EXCEPT ![p] = "done"]
    /\ loc' = [loc EXCEPT ![p].document = document, ![p].result = "None"]
    /\ store' = store

\* Lines 102-132: the file must exist, be a PDF and load with a first page.
Validate(p) ==
    /\ pc[p] = "validate"
    /\ \E loaded \in LoadOutcomes :
          IF file.kind = "missing" \/ ~HasPDF(get_file_type(file)) \/ loaded = "empty"
          THEN ReturnsNone(p, loc[p].document)
          ELSE /\ pc' = [pc EXCEPT ![p] = "author"]
               /\ loc' = [loc EXCEPT ![p].pdf = file.hash]
               /\ store' = store
    /\ UNCHANGED <<file, ncalls, profile, unit, hooks_post, last_fp, obs>>

\* obs with one more backend invocation recorded.
Invoke(o, backend) == [o EXCEPT !.invoked = Append(@, backend)]

\* obs with the exception that reached the orchestrator in `stage` recorded.
RaisedIn(o, r, stage) ==
    IF r.raised THEN [o EXCEPT !.raised_stage = stage, !.raised_msg = r.msg] ELSE o

\* obs with a failed model invocation inside `stage` recorded.
LmError(o, outcome, stage) ==
    IF outcome = "lm_error" THEN [o EXCEPT !.lm_errors = @ \cup {stage}] ELSE o

\* StageFailed that saves the partial document before returning.
StageFailedPersisting(p, step, msg) ==
    /\ pc' = [pc EXCEPT ![p] = "done"]
    /\ loc' = [loc EXCEPT
          ![p].document = add_history(@, loc[p].run_id, step, "Failed", msg),
          ![p].result = "None"]
    /\ store' = replace_one(store,
          add_history(loc[p].document, loc[p].run_id, step, "Failed", msg))

\* except Exception as e: add_history(run_id, step, "Failed", str(e)); return None
StageFailed(p, step, msg) ==
    ReturnsNone(p, add_history(loc[p].document, loc[p].run_id, step, "Failed", msg))

\* Lines 134-151: Author Extraction
AuthorStage(p) ==
    /\ pc[p] = "author"
    /\ \E o \in LmOutcomes :
          LET r == extract_author_from_first_page(o, loc[p].pdf)
          IN  /\ obs' = [obs EXCEPT ![p] =
                    RaisedIn(LmError(Invoke(@, "extract_author_from_first_page"), o, "Author Extraction"),
                             r, "Author Extraction")]
              /\ IF r.raised
                 THEN StageFailed(p, "Author Extraction", r.msg)
                 ELSE /\ pc' = [pc EXCEPT ![p] = "topic"]
                      /\ store' = store
                      /\ loc' = [loc EXCEPT ![p].document =
                            add_history([@ EXCEPT !.authors = r.value],
                                        loc[p].run_id, "Author Extraction", "Success",
                                        Join(r.value, ", "))]
    /\ UNCHANGED <<file, ncalls, profile, unit, hooks_post, last_fp>>

\* Lines 153-166: Topic Extraction
TopicStage(p) ==
    /\ pc[p] = "topic"
    /\ \E o \in LmOutcomes :
          LET r == extract_topic_from_first_page(o, loc[p].pdf)
          IN  /\ obs' = [obs EXCEPT ![p] =
                    RaisedIn(LmError(Invoke(@, "extract_topic_from_first_page"), o, "Topic Extraction"),
                             r, "Topic Extraction")]
              /\ IF r.raised
                 THEN StageFailed(p, "Topic Extraction", r.msg)
                 ELSE /\ pc' = [pc EXCEPT ![p] = "slides"]
                      /\ store' = store
                      /\ loc' = [loc EXCEPT ![p].document =
                            add_history([@ EXCEPT !.title = r.value],
                                        loc[p].run_id, "Topic Extraction", "Success",
                                        r.value)]
    /\ UNCHANGED <<file, ncalls, profile, unit, hooks_post, last_fp>>

\* Lines 168-183: Slide Extraction
SlideStage(p) ==
    /\ pc[p] = "slides"
    /\ \E o \in LmOutcomes :
          LET r == create_summary_list(o, loc[p].pdf)
          IN  /\ obs' = [obs EXCEPT ![p] =
                    RaisedIn(LmError(Invoke(@, "create_summary_list"), o, "Slide Extraction"),
                             r, "Slide Extraction")]
              /\ IF r.raised
                 THEN StageFailed(p, "Slide Extraction", r.msg)
                 ELSE /\ pc' = [pc EXCEPT ![p] = "short"]
                      /\ store' = store
                      /\ loc' = [loc EXCEPT ![p].document =
                            add_history([@ EXCEPT !.per_slide_summary = r.value],
                                        loc[p].run_id, "Slide Extraction", "Success",
                                        "None")]
    /\ UNCHANGED <<file, ncalls, profile, unit, hooks_post, last_fp>>

\* The detail of the over-length entries without the count.
ExceededDetailBare(n, text) == "Word count exceeded : " \o text

\* f"Word count exceeded {no_of_words} : {short_summary}"
ExceededDetail(n, text) == "Word count exceeded " \o ToString(n) \o " : " \o text

\* Lines 192-238 after generate_short_summary returned `generated`: the
\* record [document, invoked] the stage ends with.  o2, t2 and o3, t3 are
\* the outcome and text of filter_bullets_summary and of shorten_summary.
\* The try body accepting the first reduction as it is.
ShortSummaryStepsUngated(document, rid, generated, o2, t2, o3, t3) ==
    [document |-> add_history([document EXCEPT !.short_summary = generated], rid,
                              "Short Summary Generation", "Success", generated),
     invoked |-> <<>>,
     texts |-> <<generated, generated, generated>>]

ShortSummarySteps(document, rid, generated, o2, t2, o3, t3) ==
    LET bullets_present == contains_bullet_points(generated)
        d1 == IF bullets_present
              THEN add_history(document, rid, "Short Summary Generation", "Retry",
                               "Bullet points detected : " \o generated)
              ELSE document
        s1 == IF bullets_present
              THEN filter_bullets_summary(o2, generated, t2) ELSE generated
        n1 == count_words_nltk(s1)
        over == n1 > SHORT_SUMMARY_THRESHOLD
        d2 == IF over
              THEN add_history(d1, rid, "Short Summary Generation", "Retry",
                               ExceededDetail(n1, s1))
              ELSE d1
        s2 == IF over THEN shorten_summary(o3, s1, t3) ELSE s1
        n2 == count_words_nltk(s2)
        d3 == [d2 EXCEPT !.short_summary = s2]
    IN  [document |->
            IF n2 > SHORT_SUMMARY_THRESHOLD
            THEN add_history(d3, rid, "Short Summary Generation", "Warning",
                             ExceededDetail(n2, s2))
            ELSE add_history(d3, rid, "Short Summary Generation", "Success",
                             "(" \o ToString(n2) \o ") " \o s2),
         invoked |->
            (IF bullets_present THEN <<"filter_bullets_summary">> ELSE <<>>)
                \o (IF over THEN <<"shorten_summary">> ELSE <<>>),
         texts |-> <<generated, s1, s2>>]

\* Lines 185-244: Short Summary Generation
ShortSummaryStage(p) ==
    /\ pc[p] = "short"
    /\ \E o \in LmOutcomes, text \in GeneratedSummaries,
          o2 \in LmOutcomes \ {"raise"}, t2 \in RewrittenSummaries,
          o3 \in LmOutcomes \ {"raise"}, t3 \in RewrittenSummaries :
          LET r == generate_short_summary(o, loc[p].document.per_slide_summary, text)
              done == ShortSummarySteps(loc[p].document, loc[p].run_id, r.value,
                                        o2, t2, o3, t3)
              called == LmError(Invoke(obs[p], "generate_short_summary"), o,
                                "Short Summary Generation")
          IN  IF o = "raise"
              THEN \* a tokenizer call of lines 192-215 raises
                   /\ obs' = [obs EXCEPT ![p] =
                         RaisedIn(called, Raised("LookupError"),
                                  "Short Summary Generation")]
                   /\ StageFailed(p, "Short Summary Generation", "LookupError")
              ELSE /\ obs' = [obs EXCEPT ![p] =
                         [called EXCEPT !.invoked = @ \o done.invoked,
                                        !.summaries = done.texts]]
                   /\ pc' = [pc EXCEPT ![p] = "target"]
                   /\ store' = store
                   /\ loc' = [loc EXCEPT ![p].document = done.document]
    /\ UNCHANGED <<file, ncalls, profile, unit, hooks_post, last_fp>>

\* Lines 246-274: Target Extraction from file name and first page
TargetStage(p) ==
    /\ pc[p] = "target"
    /\ \E o \in LmOutcomes, response \in TargetResponses :
          LET r == extract_target_from_first_page(o, response)
              called == LmError(Invoke(obs[p], "extract_target_from_first_page"), o,
                                "Target Extraction")
          IN  IF r.raised
              THEN \* except: Failed entry, return None; then the finally
                   \* clause reads `target`, which was never bound
                   /\ pc' = [pc EXCEPT ![p] = "done"]
                   /\ loc' = [loc EXCEPT
                         ![p].document = add_history(@, loc[p].run_id,
                               "Target Summary Generation", "Failed", r.msg),
                         ![p].result = "raised"]
                   /\ obs' = [obs EXCEPT ![p] =
                         [RaisedIn(called, r, "Target Extraction")
                             EXCEPT !.exc = "UnboundLocalError"]]
                   /\ store' = store
              ELSE /\ pc' = [pc EXCEPT ![p] = "target2"]
                   /\ store' = store
                   /\ obs' = [obs EXCEPT ![p] =
                         IF o = "value"
                         THEN [called EXCEPT !.responses = Append(@, response),
                                             !.returned = Append(@, r.value)]
                         ELSE [called EXCEPT !.returned = Append(@, r.value)]]
                   /\ loc' = [loc EXCEPT
                         ![p].target = r.value,
                         ![p].document =
                            IF r.value = "Unknown"
                            THEN [add_history(@, loc[p].run_id, "Target Extraction",
                                      "Failed", "Target extraction returned 'Unknown'.")
                                  EXCEPT !.target = r.value]
                            ELSE add_history([@ EXCEPT !.target = r.value],
                                      loc[p].run_id, "Target Extraction", "Success",
                                      r.value)]
    /\ UNCHANGED <<file, ncalls, profile, unit, hooks_post, last_fp>>

\* The target becomes a tag whatever it is.
WithTagAlways(document) == [document EXCEPT !.tags = Append(@, document.target)]

\* Lines 309-312: a known target becomes a tag.
WithTag(document) ==
    IF document.target # "Unknown"
    THEN [document EXCEPT !.tags = Append(@, document.target)]
    ELSE document

\* The short summary handed to phase 2.
summary_string_short(document) == document.short_summary

\* Line 282: summary_string = " ".join(document.per_slide_summary)
summary_string(document) == Join(document.per_slide_summary, " ")

\* Lines 276-312: Target Extraction from Summary when the target is still
\* "Unknown", then the tags.
TargetSummaryStage(p) ==
    /\ pc[p] = "target2"
    /\ IF loc[p].document.target # "Unknown"
       THEN /\ pc' = [pc EXCEPT ![p] = "date"]
            /\ loc' = [loc EXCEPT ![p].document = WithTag(@)]
            /\ obs' = obs
            /\ store' = store
       ELSE \E o \in LmOutcomes, response \in TargetResponses :
            LET r == extract_target_from_summary(o, response)
                called == LmError(
                    [Invoke(obs[p], "extract_target_from_summary") EXCEPT
                        !.phase2_input =
                            <<summary_string(loc[p].document),
                              loc[p].document.title>>],
                    o, "Target Extraction from Summary")
            IN  IF r.raised
                THEN /\ obs' = [obs EXCEPT ![p] =
                           RaisedIn(called, r, "Target Extraction from Summary")]
                     /\ StageFailed(p, "Target Extraction from Summary", r.msg)
                ELSE /\ pc' = [pc EXCEPT ![p] = "date"]
                     /\ store' = store
                     /\ obs' = [obs EXCEPT ![p] =
                           IF o = "value"
                           THEN [called EXCEPT !.responses = Append(@, response),
                                               !.returned = Append(@, r.value)]
                           ELSE [called EXCEPT !.returned = Append(@, r.value)]]
                     /\ loc' = [loc EXCEPT
                           ![p].target = r.value,
                           ![p].document = WithTag(
                              IF r.value = "Unknown"
                              THEN add_history(@, loc[p].run_id,
                                      "Target Extraction from Summary", "Failed",
                                      "Target extraction from summary returned 'Unknown'.")
                              ELSE add_history([@ EXCEPT !.target = r.value],
                                      loc[p].run_id, "Target Extraction from Summary",
                                      "Success", r.value))]
    /\ UNCHANGED <<file, ncalls, profile, unit, hooks_post, last_fp>>

\* Lines 314-342: Date Extraction
\* Date Extraction with a missing date treated as the stage's failure.
DateStageStrict(p) ==
    /\ pc[p] = "date"
    /\ obs' = [obs EXCEPT ![p] = Invoke(@, "extract_date")]
    /\ StageFailed(p, "Date Extraction", "No date found")
    /\ UNCHANGED <<file, ncalls, profile, unit, hooks_post, last_fp>>

DateStage(p) ==
    /\ pc[p] = "date"
    /\ \E o \in DateOutcomes :
          LET r == extract_date(o, loc[p].pdf)
          IN  /\ obs' = [obs EXCEPT ![p] =
                    RaisedIn(Invoke(@, "extract_date"), r, "Date Extraction")]
              /\ IF r.raised
                 THEN StageFailed(p, "Date Extraction", r.msg)
                 ELSE /\ pc' = [pc EXCEPT ![p] = "persist"]
                      /\ store' = store
                      /\ loc' = [loc EXCEPT ![p].document =
                            IF r.value # "None"
                            THEN add_history([@ EXCEPT !.date_published = r.value],
                                     loc[p].run_id, "Date Extraction", "Success", r.value)
                            ELSE add_history(@, loc[p].run_id, "Date Extraction",
                                     "Failed", "No date found")]
    /\ UNCHANGED <<file, ncalls, profile, unit, hooks_post, last_fp>>

\* Lines 343-360: save (an error is logged and swallowed), post hooks when
\* RUN_POST_HOOKS, return the document.
Persist(p) ==
    /\ pc[p] = "persist"
    /\ \E save \in StoreOutcomes :
          /\ store' = save_document_sync(store, loc[p].document, save)
          /\ last_fp' = IF save = "ok" THEN obs[p].fp ELSE last_fp
          /\ obs' = [obs EXCEPT
                ![p].writes = IF save = "ok" THEN @ + 1 ELSE @,
                ![p].written = IF save = "ok"
                               THEN json_serializable(loc[p].document) ELSE @,
                ![p].replaced = IF save = "ok"
                                THEN find_one(store, "id", loc[p].document.id)
                                ELSE @,
                ![p].hooked =
                    IF RUN_POST_HOOKS THEN PostHooks(loc[p].document).calls
                    ELSE <<>>]
    /\ pc' = [pc EXCEPT ![p] = "done"]
    /\ loc' = [loc EXCEPT ![p].result = "document",
                          ![p].ret = json_serializable(loc[p].document)]
    /\ UNCHANGED <<file, ncalls, profile, unit, hooks_post>>

----------------------------------------------------------------------------
\* generate_short_summary, the batch reduction
\* (app/service/lm/ppt/summarizers/short_summary.py:31-213)

Min(a, b) == IF a < b THEN a ELSE b
Max(a, b) == IF a > b THEN a ELSE b

\* A slice bound as Python resolves it for a list of length n.
PyIndex(i, n) == IF i < 0 THEN Max(i + n, 0) ELSE Min(i, n)

\* s[start:stop]
PySlice(s, start, stop) ==
    LET a == PyIndex(start, Len(s))
        b == PyIndex(stop, Len(s))
    IN  IF a >= b THEN <<>> ELSE SubSeq(s, a + 1, b)

\* The per-slide summaries handed in: slide i is a text of its own or
\* whitespace only.
SlideText(i) == "slide " \o ToString(i)
Contents ==
    UNION {[1..n -> {"text", " "}] : n \in 0..MaxSlides}
ContentOf(shape) ==
    [i \in 1..Len(shape) |-> IF shape[i] = "text" THEN SlideText(i) ELSE " "]

\* Line 40: `not content or all(not slide.strip() for slide in content)`
EmptyContent(content) ==
    Len(content) = 0 \/ \A i \in 1..Len(content) : Strip(content[i]) = ""

\* Line 139: BATCH_1_SIZE = min(BATCH_1_SIZE, total_slides)
ClampLead(k1, total_slides) == Min(k1, total_slides)

\* BATCH_N_SIZE clamped to the slide count only.
ClampTrailingLoose(k2, total_slides, lead) == Min(k2, total_slides)

\* Line 140: BATCH_N_SIZE = min(BATCH_N_SIZE, max(0, total_slides - BATCH_1_SIZE))
ClampTrailing(k2, total_slides, lead) == Min(k2, Max(0, total_slides - lead))

\* Lines 39-148: validation, the chains, clamping and slicing.
ReduceBegin ==
    /\ batch.pc = "start"
    /\ \E o \in {"value", "lm_error"} :
          LET content == batch.content
              total_slides == Len(content)
              b1 == ClampLead(batch.k1, total_slides)
              bn == ClampTrailing(batch.k2, total_slides, b1)
          IN  batch' =
                IF EmptyContent(content)
                THEN [batch EXCEPT !.pc = "done", !.result = "Summary not available."]
                ELSE IF o = "lm_error"
                THEN [batch EXCEPT !.pc = "done", !.result = "Unknown"]
                ELSE [batch EXCEPT
                        !.pc = "lead",
                        !.BATCH_1_SIZE = b1,
                        !.BATCH_N_SIZE = bn,
                        !.batch_1 = PySlice(content, 0, b1),
                        !.batch_n = IF bn > 0
                                    THEN PySlice(content, 0 - bn, total_slides)
                                    ELSE <<>>,
                        !.middle_content =
                            IF total_slides > b1 + bn
                            THEN PySlice(content, b1, total_slides - bn)
                            ELSE <<>>]
    /\ UNCHANGED <<file, store, ncalls, profile, hooks_post, last_fp, pc, loc,
                   obs, registry, dispatch>>

\* "\n".join(slide.strip() for slide in batch if slide.strip())
joined_batch(slides) ==
    Join([i \in 1..Len(SelectSeq(slides, LAMBDA t : Strip(t) # "")) |->
             Strip(SelectSeq(slides, LAMBDA t : Strip(t) # "")[i])], "\n")

\* What a chain answers: a text of its own for every chain and input.
Answer(chain, content) == chain \o "[" \o content \o "]"

\* One batch_summary_chain.invoke on a batch: the batch and its summary
\* are recorded, or the chain raises and the except clause returns the
\* sentinel.
InvokeBatch(role, slides, next, o) ==
    IF o = "lm_error"
    THEN [batch EXCEPT !.pc = "done", !.result = "Unknown"]
    ELSE LET summary == Answer("batch", joined_batch(slides))
         IN  [batch EXCEPT
                !.pc = next,
                !.invoked = Append(@, [role |-> role, slides |-> slides]),
                !.batch_1_summary = IF role = "Lead" THEN summary ELSE @,
                !.middle_summaries = IF role = "Middle" THEN Append(@, summary) ELSE @,
                !.batch_n_summary = IF role = "Trailing" THEN summary ELSE @]

\* Lines 150-154: BATCH 1
ReduceLead ==
    /\ batch.pc = "lead"
    /\ \E o \in {"value", "lm_error"} :
          batch' = InvokeBatch("Lead", batch.batch_1, "middle", o)
    /\ UNCHANGED <<file, store, ncalls, profile, hooks_post, last_fp, pc, loc,
                   obs, registry, dispatch>>

\* Lines 156-170: one iteration of the loop over the middle batches
ReduceMiddle ==
    /\ batch.pc = "middle"
    /\ batch.idx < Len(batch.middle_content)
    /\ \E o \in {"value", "lm_error"} :
          batch' = [InvokeBatch("Middle",
                               PySlice(batch.middle_content, batch.idx,
                                       batch.idx + batch.km),
                               "middle", o)
                    EXCEPT !.idx = @ + batch.km]
    /\ UNCHANGED <<file, store, ncalls, profile, hooks_post, last_fp, pc, loc,
                   obs, registry, dispatch>>

\* BATCH N invoked also when it is empty.
ReduceTrailingAlways ==
    /\ batch.pc = "middle"
    /\ batch.idx >= Len(batch.middle_content)
    /\ \E o \in {"value", "lm_error"} :
          batch' = InvokeBatch("Trailing", batch.batch_n, "final", o)
    /\ UNCHANGED <<file, store, ncalls, profile, hooks_post, last_fp, pc, loc,
                   obs, registry, dispatch>>

\* Lines 172-181: BATCH N, when there is one
ReduceTrailing ==
    /\ batch.pc = "middle"
    /\ batch.idx >= Len(batch.middle_content)
    /\ \E o \in {"value", "lm_error"} :
          batch' = IF batch.batch_n # <<>>
                   THEN InvokeBatch("Trailing", batch.batch_n, "final", o)
                   ELSE [batch EXCEPT !.pc = "final", !.batch_n_summary = ""]
    /\ UNCHANGED <<file, store, ncalls, profile, hooks_post, last_fp, pc, loc,
                   obs, registry, dispatch>>

\* Lines 184-190: the batch summaries put together
combined_summary_input(b) ==
    b.batch_1_summary \o "\n" \o Join(b.middle_summaries, "\n") \o "\n"
        \o b.batch_n_summary

\* Lines 183-195: final_summary_chain.invoke on the combined summaries
ReduceFinal ==
    /\ batch.pc = "final"
    /\ \E o \in {"value", "lm_error"} :
          batch' = IF o = "lm_error"
                   THEN [batch EXCEPT !.pc = "done", !.result = "Unknown"]
                   ELSE [batch EXCEPT
                           !.pc = "refine",
                           !.passes = Append(@, [chain |-> "final",
                                content |-> combined_summary_input(batch)])]
    /\ UNCHANGED <<file, store, ncalls, profile, hooks_post, last_fp, pc, loc,
                   obs, registry, dispatch>>

\* Lines 197-201: refinement_chain.invoke on the final summary; its answer
\* is returned.
ReduceRefine ==
    /\ batch.pc = "refine"
    /\ \E o \in {"value", "lm_error"} :
          LET final_summary ==
                  Answer("final", batch.passes[Len(batch.passes)].content)
          IN  batch' =
                IF o = "lm_error"
                THEN [batch EXCEPT !.pc = "done", !.result = "Unknown"]
                ELSE [batch EXCEPT
                        !.pc = "done",
                        !.passes = Append(@, [chain |-> "refinement",
                                              content |-> final_summary]),
                        !.result = Answer("refinement", final_summary)]
    /\ UNCHANGED <<file, store, ncalls, profile, hooks_post, last_fp, pc, loc,
                   obs, registry, dispatch>>

\* generate_short_summary(content, BATCH_1_SIZE, BATCH_N_SIZE,
\* MIDDLE_BATCH_SIZE) is about to run on any bounded input.
InitBatch ==
    /\ Quiet("batch")
    /\ registry = LoadedRegistry
    /\ dispatch = IdleDispatch
    /\ \E shape \in Contents, k1 \in 0..MaxBatchSize, k2 \in 0..MaxBatchSize,
          km \in 1..MaxMiddleSize :
          batch = [IdleBatch EXCEPT !.pc = "start", !.content = ContentOf(shape),
                                    !.k1 = k1, !.k2 = k2, !.km = km]

NextBatch ==
    \/ ReduceBegin
    \/ ReduceLead
    \/ ReduceMiddle
    \/ ReduceTrailing
    \/ ReduceFinal
    \/ ReduceRefine

----------------------------------------------------------------------------
\* The hook dispatcher on its own (app/hooks/registry.py)

\* Pipeline names hooks are registered under, and names dispatched.
PipelineNames == {"post", "pre"}
DispatchNames == PipelineNames \cup {"other"}

\* Callables: a function, a function that raises when called, and a
\* callable object without __name__.
Callables ==
    {Hook("notify", TRUE, FALSE), Hook("failing", TRUE, TRUE),
     Hook("partial", FALSE, FALSE)}

\* The number of hooks registered.
Registered ==
    LET RECURSIVE Count(_)
        Count(S) == IF S = {} THEN 0
                    ELSE LET n == CHOOSE x \in S : TRUE
                         IN  Len(registry[n]) + Count(S \ {n})
    IN  Count(DOMAIN registry)

\* The document handed to the hooks.
HookDocument == NewDocument(1, FilePath, "ext/one")

InitHooks ==
    /\ Quiet("hooks")
    /\ registry = [n \in {} |-> <<>>]
    /\ dispatch = IdleDispatch
    /\ batch = IdleBatch

\* register_hook(pipeline, hook) for a callable hook
RegisterHook(pipeline, hook) ==
    /\ Registered < MaxHooks
    /\ registry' = register_hook(registry, pipeline, hook)
    /\ UNCHANGED <<file, store, ncalls, profile, hooks_post, last_fp, pc, loc,
                   obs, dispatch, batch>>

\* execute_hooks(pipeline, document)
ExecuteHooks(pipeline) ==
    /\ dispatch' = [pipeline |-> pipeline,
                    registered |-> pipeline_hooks(pipeline),
                    calls |-> execute_hooks(pipeline, HookDocument).calls,
                    raised |-> execute_hooks(pipeline, HookDocument).raised,
                    done |-> TRUE]
    /\ UNCHANGED <<file, store, ncalls, profile, hooks_post, last_fp, pc, loc,
                   obs, registry, batch>>

NextHooks ==
    \/ \E pipeline \in PipelineNames, hook \in Callables : RegisterHook(pipeline, hook)
    \/ \E pipeline \in DispatchNames : ExecuteHooks(pipeline)

----------------------------------------------------------------------------
\* Specifications

Next ==
    \/ \E f \in Files : WriteFile(f)
    \/ \E p \in Procs, ext \in ExtPaths, force \in BOOLEAN : Start(p, ext, force)
    \/ \E p \in Procs : Begin(p)
    \/ \E p \in Procs : Validate(p)
    \/ \E p \in Procs : AuthorStage(p)
    \/ \E p \in Procs : TopicStage(p)
    \/ \E p \in Procs : SlideStage(p)
    \/ \E p \in Procs : ShortSummaryStage(p)
    \/ \E p \in Procs : TargetStage(p)
    \/ \E p \in Procs : TargetSummaryStage(p)
    \/ \E p \in Procs : DateStage(p)
    \/ \E p \in Procs : Persist(p)
    \/ \E p \in Procs : Finish(p)

\* Sequential calls, nominal outcomes (value or exception at every backend).
Spec == Init /\ [][Next]_vars

\* As Spec, with model invocations that fail inside the backends.
SpecLm == InitLm /\ [][Next]_vars

\* As Spec, with every shape of summary text.
SpecText == InitText /\ [][Next]_vars

\* Overlapping calls on the one path, every backend answering.
SpecConc == InitConc /\ [][Next]_vars

\* Sequential calls, every backend answering, with or without a date and
\* a known target: a run and its re-run.
SpecRerun == InitRerun /\ [][Next]_vars

\* generate_short_summary's batch reduction on its own, over every input.
SpecBatch == InitBatch /\ [][NextBatch]_vars

\* register_hook and execute_hooks on their own, over every registry.
SpecHooks == InitHooks /\ [][NextHooks]_vars

----------------------------------------------------------------------------
\* Vocabulary of the properties

\* The record stored for the path now, and when call p started.
Stored == get_document_by_file_path_sync(store, FilePath)
Prior(p) == get_document_by_file_path_sync(obs[p].store0, FilePath)

IsPrefix(a, b) == Len(a) <= Len(b) /\ \A i \in 1..Len(a) : a[i] = b[i]

Running(p) == pc[p] \notin {"idle", "init"}

\* The history entries call p has appended to its working document.
OwnEntries(p) ==
    LET h == loc[p].document.history
        n == IF IsDoc(Prior(p)) THEN Len(Prior(p).history) ELSE 0
    IN  IF IsDoc(loc[p].document) /\ Len(h) > n THEN SubSeq(h, n + 1, Len(h)) ELSE <<>>

InSeq(x, q) == \E i \in 1..Len(q) : q[i] = x

\* The backends of the six stages every complete run goes through.
StageBackends ==
    {"extract_author_from_first_page", "extract_topic_from_first_page",
     "create_summary_list", "generate_short_summary",
     "extract_target_from_first_page", "extract_date"}

----------------------------------------------------------------------------
\* C1. Idempotence: once a run for the file's current content has completed
\* and persisted, a later call on the same bytes with force_run = false
\* returns the stored document (same doc_hash, same run_id), writes nothing
\* and invokes no backend.  (Calls whose store lookup fails are left out.)
C1_Idempotent ==
    \A p \in Procs :
        (/\ pc[p] = "done"
         /\ ~loc[p].force
         /\ obs[p].fp # "None"
         /\ obs[p].prev_fp = obs[p].fp
         /\ obs[p].exc # "HTTPException")
        => /\ loc[p].result = "document"
           /\ loc[p].ret.doc_hash = Prior(p).doc_hash
           /\ loc[p].ret.run_id = Prior(p).run_id
           /\ obs[p].writes = 0
           /\ obs[p].invoked = <<>>
           /\ store = obs[p].store0

\* C2. The doc_hash of the record a run writes at PERSIST is the fingerprint
\* the same run computed from the file at its start.
C2_WrittenHashIsFingerprint ==
    \A p \in Procs :
        obs[p].writes > 0 => obs[p].written.doc_hash = obs[p].fp

\* C3. Hash-driven reprocessing: with a stored record and a different
\* fingerprint or force_run, the call does not short-circuit; when it reaches
\* PERSIST every stage backend has been invoked, and the record it writes
\* and returns has the stored run_id + 1.  A short-circuited call leaves the
\* stored run_id as it was and returns it.
C3_ReprocessIncrementsRunId ==
    \A p \in Procs :
        /\ (Running(p) /\ IsDoc(Prior(p))
                /\ (Prior(p).doc_hash # obs[p].fp \/ loc[p].force))
           => /\ ~obs[p].short_circuit
              /\ (pc[p] = "persist" \/ loc[p].result = "document")
                    => StageBackends \subseteq
                          {obs[p].invoked[i] : i \in 1..Len(obs[p].invoked)}
              /\ obs[p].writes > 0
                    => /\ obs[p].written.run_id = Prior(p).run_id + 1
                       /\ Stored.run_id = Prior(p).run_id + 1
              /\ loc[p].result = "document"
                    => loc[p].ret.run_id = Prior(p).run_id + 1
        /\ obs[p].short_circuit
           => /\ Stored.run_id = Prior(p).run_id
              /\ loc[p].ret.run_id = Prior(p).run_id

\* C3 witness: a run on changed bytes, not forced, has written run_id + 1.
C3_Witness ==
    \E p \in Procs :
        /\ pc[p] = "done" /\ IsDoc(Prior(p)) /\ ~loc[p].force
        /\ Prior(p).doc_hash # obs[p].fp
        /\ obs[p].writes > 0
        /\ Stored.run_id = Prior(p).run_id + 1

\* C4. History is append-only across sequential runs: the history stored
\* when a call started is a prefix of the history stored at any later point
\* of the call, however the call ends.
C4_HistoryAppendOnly ==
    \A p \in Procs :
        (pc[p] # "idle" /\ IsDoc(Prior(p)))
        => /\ IsDoc(Stored)
           /\ IsPrefix(Prior(p).history, Stored.history)

\* C4 witness: a re-run has stored a longer history over a non-empty one.
C4_Witness ==
    \E p \in Procs :
        /\ pc[p] = "done" /\ IsDoc(Prior(p))
        /\ Len(Prior(p).history) > 0
        /\ Len(Stored.history) > Len(Prior(p).history)

\* C5. Every call ends by returning a document or None; no exception
\* leaves gen_summary.
C5_NoExceptionEscapes ==
    \A p \in Procs :
        pc[p] = "done" => loc[p].result \in {"document", "None"}

\* The last history entry of call p's working document.
LastEntry(p) == loc[p].document.history[Len(loc[p].document.history)]

\* The stage each backend belongs to.
BackendOf(stage) ==
    CASE stage = "Author Extraction" -> "extract_author_from_first_page"
      [] stage = "Topic Extraction" -> "extract_topic_from_first_page"
      [] stage = "Slide Extraction" -> "create_summary_list"
      [] stage = "Short Summary Generation" -> "generate_short_summary"
      [] stage = "Target Extraction" -> "extract_target_from_first_page"
      [] stage = "Target Extraction from Summary" -> "extract_target_from_summary"
      [] OTHER -> "extract_date"

\* C6. Stage failure aborts the run: when a stage's backend call raises to
\* the orchestrator, the working document's last entry is a Failed entry of
\* that stage with the exception message, that backend is the last one
\* invoked, nothing is written or dispatched, and the call returns None.
C6_StageFailureAborts ==
    \A p \in Procs :
        obs[p].raised_stage # "None"
        => /\ pc[p] = "done"
           /\ loc[p].result = "None"
           /\ LastEntry(p) = PipelineHistory(loc[p].run_id, obs[p].raised_stage,
                                             "Failed", obs[p].raised_msg)
           /\ obs[p].invoked[Len(obs[p].invoked)] = BackendOf(obs[p].raised_stage)
           /\ obs[p].writes = 0
           /\ obs[p].hooked = <<>>
           /\ store = obs[p].store0

\* The stages whose backends C7 is about.
LmStages ==
    {"Author Extraction", "Topic Extraction", "Slide Extraction",
     "Short Summary Generation"}

C8_NoPartialPersist ==
    \A p \in Procs :
        (pc[p] = "done" /\ loc[p].result \in {"None", "raised"})
        => store = obs[p].store0

\* C8 witness: a re-run that failed in a stage; its new entries exist in
\* memory only.
C8_Witness ==
    \E p \in Procs :
        /\ pc[p] = "done" /\ loc[p].result = "None"
        /\ IsDoc(Prior(p))
        /\ obs[p].raised_stage # "None"
        /\ Len(loc[p].document.history) > Len(Stored.history)

\* When the short-circuit applies to call p.
ShortCircuitApplies(p) ==
    /\ Running(p)
    /\ obs[p].exc = "None"
    /\ IsDoc(Prior(p))
    /\ Prior(p).doc_hash = obs[p].fp
    /\ ~loc[p].force

\* C9 as stated: the short-circuit returns the stored record unchanged in
\* every field, appends nothing, invokes no backend, writes nothing.
C9_ShortCircuitReturnsStored ==
    \A p \in Procs :
        ShortCircuitApplies(p)
        => /\ pc[p] = "done" /\ obs[p].short_circuit
           /\ loc[p].ret = Prior(p)
           /\ obs[p].invoked = <<>>
           /\ store = obs[p].store0

\* C9 amended: the returned record is the stored one except for ext_path,
\* which is the caller's origin_ext_path; the store keeps its own ext_path.
C9_ShortCircuitReturnsStoredButExtPath ==
    \A p \in Procs :
        ShortCircuitApplies(p)
        => /\ pc[p] = "done" /\ obs[p].short_circuit
           /\ loc[p].result = "document"
           /\ loc[p].ret = [Prior(p) EXCEPT !.ext_path = loc[p].ext]
           /\ obs[p].invoked = <<>>
           /\ obs[p].writes = 0
           /\ store = obs[p].store0

\* C9 witness: a short-circuit for a caller whose origin path differs from
\* the stored one.
C9_Witness ==
    \E p \in Procs :
        /\ ShortCircuitApplies(p) /\ obs[p].short_circuit
        /\ Prior(p).ext_path # loc[p].ext
        /\ Len(Prior(p).history) > 0

\* A model answer that is no gazetteer member.
NotInGazetteer(response) == Lower(Strip(response)) \notin target_names

Tags(d) == IF IsDoc(d) THEN d.tags ELSE <<>>

\* C10. Gazetteer gate: a model answer outside the gazetteer is never the
\* working or stored target and is never appended to tags by the run; a run
\* whose answers are all outside it persists target "Unknown" and the tags
\* it started with.
C10_GazetteerGate ==
    \A p \in Procs :
        /\ \A i \in 1..Len(obs[p].responses) :
              NotInGazetteer(obs[p].responses[i])
              => /\ loc[p].document.target # Strip(obs[p].responses[i])
                 /\ ~InSeq(Strip(obs[p].responses[i]), loc[p].document.tags)
                 /\ \A k \in 1..Len(store) :
                       /\ store[k].target # Strip(obs[p].responses[i])
                       /\ ~InSeq(Strip(obs[p].responses[i]), store[k].tags)
        /\ (/\ obs[p].writes > 0
            /\ \A i \in 1..Len(obs[p].responses) : NotInGazetteer(obs[p].responses[i]))
           => /\ obs[p].written.target = "Unknown"
              /\ obs[p].written.tags = Tags(Prior(p))

\* C10 witness: both phases answered outside the gazetteer and the run
\* persisted.
C10_Witness ==
    \E p \in Procs :
        /\ obs[p].writes > 0
        /\ obs[p].responses = <<"Kinase", "Kinase">>
        /\ Stored.target = "Unknown"

----------------------------------------------------------------------------
RECURSIVE SlidesOfBatches(_)
\* The slides of the batches processed so far, in processing order.
SlidesOfBatches(invoked) ==
    IF invoked = <<>> THEN <<>>
    ELSE Head(invoked).slides \o SlidesOfBatches(Tail(invoked))

\* The batches of one role processed so far.
BatchesOf(role) == SelectSeq(batch.invoked, LAMBDA b : b.role = role)

\* The reduction has partitioned its input / has gone through every batch.
Partitioned == batch.pc \in {"lead", "middle", "final", "refine"} \/ batch.invoked # <<>>
Reduced == batch.pc \in {"final", "refine"} \/ Len(batch.passes) = 2

\* C11. Batch clamping: for an input with at least one non-blank slide,
\* Lead has min(k1, n) slides, Trailing min(k2, n - lead), together at most
\* n, and Lead ++ Middle ++ Trailing is the input; the batches processed
\* are one Lead, the Middle batches in order, and Trailing when it is not
\* empty; a single slide with k1 = k2 = 2 gives one Lead batch only.
C11_BatchClamping ==
    LET n == Len(batch.content)
        lead == Len(batch.batch_1)
        trailing == Len(batch.batch_n)
    IN  /\ Partitioned
           => /\ lead = Min(batch.k1, n)
              /\ trailing = Min(batch.k2, n - lead)
              /\ lead + trailing <= n
              /\ batch.batch_1 \o batch.middle_content \o batch.batch_n
                    = batch.content
        /\ Reduced
           => /\ SlidesOfBatches(batch.invoked) = batch.content
              /\ Len(BatchesOf("Lead")) = 1
              /\ Head(batch.invoked).role = "Lead"
              /\ Len(BatchesOf("Trailing")) = (IF trailing > 0 THEN 1 ELSE 0)
              /\ \A i \in 1..Len(BatchesOf("Middle")) :
                    Len(BatchesOf("Middle")[i].slides) \in 1..batch.km
              /\ (n = 1 /\ batch.k1 = 2 /\ batch.k2 = 2)
                    => batch.invoked = <<[role |-> "Lead", slides |-> batch.content]>>

\* C11 witness: a one-slide input with both sizes 2 has been reduced.
C11_Witness ==
    /\ batch.pc = "done" /\ Len(batch.passes) = 2
    /\ Len(batch.content) = 1 /\ batch.k1 = 2 /\ batch.k2 = 2
    /\ Len(batch.invoked) = 1

----------------------------------------------------------------------------
\* The place in the execution order of the stage that writes entries under
\* a step name; phase 1's except clause writes "Target Summary Generation".
StageRank(step) ==
    CASE step = "Author Extraction" -> 1
      [] step = "Topic Extraction" -> 2
      [] step = "Slide Extraction" -> 3
      [] step = "Short Summary Generation" -> 4
      [] step \in {"Target Extraction", "Target Summary Generation"} -> 5
      [] step = "Target Extraction from Summary" -> 6
      [] step = "Date Extraction" -> 7
      [] OTHER -> 0

\* C12. The entries a run appends are in stage-execution order, carry the
\* run's run_id, and an entry of Target Extraction from Summary is there
\* only after phase 1 logged that it returned Unknown.
C12_HistoryInStageOrder ==
    \A p \in Procs :
        LET own == OwnEntries(p)
        IN  /\ \A i \in 1..Len(own) :
                  /\ StageRank(own[i].step) > 0
                  /\ own[i].run_id = loc[p].run_id
            /\ \A i, j \in 1..Len(own) :
                  i < j => StageRank(own[i].step) <= StageRank(own[j].step)
            /\ \A j \in 1..Len(own) :
                  own[j].step = "Target Extraction from Summary"
                  => \E i \in 1..(j - 1) :
                        /\ own[i].step = "Target Extraction"
                        /\ own[i].status = "Failed"

\* C12 witness: a re-run that went through all seven stages, phase 2
\* included, has returned.
C12_Witness ==
    \E p \in Procs :
        /\ pc[p] = "done" /\ loc[p].result = "document"
        /\ IsDoc(Prior(p)) /\ Len(Prior(p).history) > 0
        /\ {StageRank(OwnEntries(p)[i].step) : i \in 1..Len(OwnEntries(p))} = 1..7

----------------------------------------------------------------------------
\* Call p is past input validation on a readable file that is no PDF, and
\* neither the short-circuit nor a failed store lookup ended it before.
UnsupportedType(p) ==
    /\ pc[p] \notin {"idle", "init", "validate"}
    /\ file.kind = "TEXT"
    /\ ~obs[p].short_circuit
    /\ obs[p].exc = "None"

\* C13. Unsupported type: the call returns None, has appended no history
\* entry, invoked no backend and left the store as it found it.
C13_UnsupportedTypeSilent ==
    \A p \in Procs :
        UnsupportedType(p)
        => /\ pc[p] = "done"
           /\ loc[p].result = "None"
           /\ OwnEntries(p) = <<>>
           /\ IsDoc(Prior(p)) => loc[p].document.history = Prior(p).history
           /\ ~IsDoc(Prior(p)) => loc[p].document.history = <<>>
           /\ obs[p].invoked = <<>>
           /\ obs[p].writes = 0
           /\ store = obs[p].store0

\* C13 witness: a forced call on a non-PDF file for which a record is
\* stored has returned None.
C13_Witness ==
    \E p \in Procs :
        /\ UnsupportedType(p) /\ loc[p].result = "None"
        /\ IsDoc(Prior(p)) /\ loc[p].force

----------------------------------------------------------------------------
\* One call of every hook of the configured pipeline, in order, with the
\* record the call returned.
DispatchedOnceWith(p) ==
    /\ Len(obs[p].hooked) = Len(pipeline_hooks(hooks_post))
    /\ \A i \in 1..Len(obs[p].hooked) :
          /\ obs[p].hooked[i].hook = pipeline_hooks(hooks_post)[i]
          /\ json_serializable(obs[p].hooked[i].document) = loc[p].ret

\* C14. With HOOKS_POST set, every call that returns a document has
\* dispatched the pipeline's hooks exactly once with the returned record.
C14_HooksDispatchedOnce ==
    \A p \in Procs :
        (pc[p] = "done" /\ loc[p].result = "document" /\ hooks_post # "None")
        => DispatchedOnceWith(p)

----------------------------------------------------------------------------
\* C15. execute_hooks calls every hook registered under the name exactly
\* once, in registration order, whichever of them raise, and does not raise
\* itself; for a name without hooks it calls nothing.
C15_EveryHookOnce ==
    dispatch.done
    => /\ ~dispatch.raised
       /\ Len(dispatch.calls) = Len(dispatch.registered)
       /\ \A i \in 1..Len(dispatch.calls) :
             /\ dispatch.calls[i].hook = dispatch.registered[i]
             /\ dispatch.calls[i].document = HookDocument

----------------------------------------------------------------------------
\* The entries of the three soft failures.
SoftFailure(e) ==
    \/ e.step = "Date Extraction" /\ e.status = "Failed"
            /\ e.details = "No date found"
    \/ e.step = "Target Extraction" /\ e.status = "Failed"
            /\ e.details = "Target extraction returned 'Unknown'."
    \/ e.step = "Target Extraction from Summary" /\ e.status = "Failed"
            /\ e.details = "Target extraction from summary returned 'Unknown'."
    \/ e.step = "Short Summary Generation" /\ e.status = "Warning"

\* The stage a running call is at, in execution order; PERSIST is 8.
PcRank(at) ==
    CASE at = "author" -> 1 [] at = "topic" -> 2 [] at = "slides" -> 3
      [] at = "short" -> 4 [] at = "target" -> 5 [] at = "target2" -> 6
      [] at = "date" -> 7 [] at = "persist" -> 8 [] OTHER -> 0

\* C16. Soft failures are non-fatal: after a soft-failure entry the run is
\* at a later stage or at PERSIST; when it has ended, it returned a
\* document holding the entry, unless a later stage's backend raised.
C16_SoftFailuresNonFatal ==
    \A p \in Procs : \A i \in 1..Len(OwnEntries(p)) :
        LET e == OwnEntries(p)[i]
        IN  SoftFailure(e)
            => /\ pc[p] # "done" => PcRank(pc[p]) > StageRank(e.step)
               /\ pc[p] = "done"
                    => \/ /\ loc[p].result = "document"
                          /\ InSeq(e, loc[p].ret.history)
                       \/ /\ obs[p].raised_stage # "None"
                          /\ StageRank(obs[p].raised_stage) > StageRank(e.step)

\* C16 witness: a run with an over-length summary, both target phases
\* Unknown and no date has persisted and returned its document.
C16_Witness ==
    \E p \in Procs :
        /\ pc[p] = "done" /\ loc[p].result = "document" /\ obs[p].writes > 0
        /\ \E i \in 1..Len(OwnEntries(p)) : OwnEntries(p)[i].status = "Warning"
        /\ \E i \in 1..Len(OwnEntries(p)) :
              OwnEntries(p)[i].step = "Target Extraction from Summary"
              /\ OwnEntries(p)[i].status = "Failed"
        /\ \E i \in 1..Len(OwnEntries(p)) :
              OwnEntries(p)[i].details = "No date found"
        /\ Stored.target = "Unknown"

----------------------------------------------------------------------------
\* Call p went through PERSIST and its save raised.
SaveFailed(p) ==
    /\ pc[p] = "done"
    /\ loc[p].result = "document"
    /\ ~obs[p].short_circuit
    /\ obs[p].writes = 0

----------------------------------------------------------------------------
\* C18. The store holds at most one record per file_path.
C18_OneRecordPerPath ==
    \A i, j \in 1..Len(store) :
        store[i].file_path = store[j].file_path => i = j

----------------------------------------------------------------------------
\* C19. No value occurs twice in the tags of a stored document.
C19_TagsDeduplicated ==
    \A k \in 1..Len(store) :
        \A i, j \in 1..Len(store[k].tags) :
            store[k].tags[i] = store[k].tags[j] => i = j

----------------------------------------------------------------------------
\* How often call p invoked a backend.
TimesInvoked(p, backend) ==
    Len(SelectSeq(obs[p].invoked, LAMBDA b : b = backend))

\* The summarizer invocations of call p, in order.
SummarizerCalls(p) ==
    SelectSeq(obs[p].invoked,
              LAMBDA b : b \in {"generate_short_summary", "filter_bullets_summary",
                                "shorten_summary"})

\* C20. Length gate: when the first reduction is over 160 words, the run
\* flattens bullets once if there are bullets and not otherwise, then
\* compresses once if the text is still over 160 words and not otherwise,
\* in that order, reduces once, and keeps the last text as short_summary
\* whatever its length.
C20_LengthGate ==
    \A p \in Procs :
        (obs[p].summaries # <<>> /\ count_words_nltk(obs[p].summaries[1]) > 160)
        => LET generated == obs[p].summaries[1]
               flattened == obs[p].summaries[2]
               final == obs[p].summaries[3]
               bullets == IF contains_bullet_points(generated)
                          THEN <<"filter_bullets_summary">> ELSE <<>>
               compress == IF count_words_nltk(flattened) > 160
                           THEN <<"shorten_summary">> ELSE <<>>
           IN  /\ SummarizerCalls(p)
                     = <<"generate_short_summary">> \o bullets \o compress
               /\ ~contains_bullet_points(generated) => flattened = generated
               /\ count_words_nltk(flattened) <= 160 => final = flattened
               /\ loc[p].document.short_summary = final
               /\ final # "None"
               /\ \E i \in 1..Len(OwnEntries(p)) :
                     /\ OwnEntries(p)[i].step = "Short Summary Generation"
                     /\ OwnEntries(p)[i].status
                           = (IF count_words_nltk(final) > 160
                              THEN "Warning" ELSE "Success")

\* C20 witness: bullets over the threshold were flattened, the text was
\* still too long, was compressed once, and is kept although still too long.
C20_Witness ==
    \E p \in Procs :
        /\ obs[p].summaries = <<"list200", "para200", "para200">>
        /\ SummarizerCalls(p) = <<"generate_short_summary",
                                  "filter_bullets_summary", "shorten_summary">>
        /\ loc[p].document.short_summary = "para200"
        /\ pc[p] = "done" /\ loc[p].result = "document"

----------------------------------------------------------------------------
\* The Short Summary stage of call p ended without raising.
ShortSummaryDone(p) == obs[p].summaries # <<>>

\* The final summary of call p and its word count.
FinalSummary(p) == obs[p].summaries[3]
FinalWords(p) == count_words_nltk(FinalSummary(p))

\* What a Warning entry of call p has to say: the count and the text.
WarningDetail(p) ==
    "Word count exceeded " \o ToString(FinalWords(p)) \o " : " \o FinalSummary(p)

\* The entries of one status call p appended for Short Summary Generation.
ShortSummaryEntries(p, status) ==
    SelectSeq(OwnEntries(p),
              LAMBDA e : e.step = "Short Summary Generation" /\ e.status = status)

\* C21 as stated: a final summary of more than 150 words (the cap of the
\* compression pass) leaves a Warning entry with the word count.
C21_WarningOverCap ==
    \A p \in Procs :
        (ShortSummaryDone(p) /\ FinalWords(p) > SHORTEN_WORD_CAP)
        => ShortSummaryEntries(p, "Warning")
              = <<PipelineHistory(loc[p].run_id, "Short Summary Generation",
                     "Warning", WarningDetail(p))>>

\* C21 amended: the Warning entry is there exactly when the final summary
\* has more than SHORT_SUMMARY_THRESHOLD (160) words, with the word count
\* and the text; up to 160 words the stage logs Success with the count,
\* also above 150.
C21_WarningOverThreshold ==
    \A p \in Procs :
        ShortSummaryDone(p)
        => /\ FinalWords(p) > SHORT_SUMMARY_THRESHOLD
              => /\ ShortSummaryEntries(p, "Warning")
                       = <<PipelineHistory(loc[p].run_id, "Short Summary Generation",
                              "Warning",
                              WarningDetail(p))>>
                 /\ ShortSummaryEntries(p, "Success") = <<>>
           /\ FinalWords(p) <= SHORT_SUMMARY_THRESHOLD
              => /\ ShortSummaryEntries(p, "Warning") = <<>>
                 /\ ShortSummaryEntries(p, "Success")
                       = <<PipelineHistory(loc[p].run_id, "Short Summary Generation",
                              "Success",
                              "(" \o ToString(FinalWords(p)) \o ") "
                                  \o FinalSummary(p))>>
           /\ loc[p].document.short_summary = FinalSummary(p)

\* C21 witness: a compressed summary of 200 words was accepted with a
\* Warning entry that carries "200", and the run went on.
C21_Witness ==
    \E p \in Procs :
        /\ ShortSummaryDone(p) /\ FinalWords(p) = 200
        /\ InSeq("shorten_summary", obs[p].invoked)
        /\ Len(ShortSummaryEntries(p, "Warning")) = 1
        /\ ShortSummaryEntries(p, "Warning")[1].details
              = "Word count exceeded 200 : " \o FinalSummary(p)
        /\ pc[p] = "target"

----------------------------------------------------------------------------
\* The entries call p appended to the history of the record it loaded.
Appended(p) ==
    SubSeq(loc[p].document.history, Len(loc[p].existing.history) + 1,
           Len(loc[p].document.history))

\* Calls p and q overlapped on an existing record: both loaded the same
\* stored record at the hash check, both went through the whole pipeline
\* and both saved.
BothPersisted(p, q) ==
    /\ p # q
    /\ pc[p] = "done" /\ pc[q] = "done"
    /\ IsDoc(loc[p].existing) /\ loc[p].existing = loc[q].existing
    /\ ~obs[p].short_circuit /\ ~obs[q].short_circuit
    /\ obs[p].writes > 0 /\ obs[q].writes > 0

\* Call w saved after call e: its write replaced the record e had written.
WroteAfter(w, e) == obs[w].replaced = obs[e].written

\* C22. Lost update: after two overlapping runs on the same existing
\* record both persisted, the stored run_id is the loaded run_id + 1, the
\* record stored is the one the later writer wrote (its history is the
\* loaded history followed by the later writer's entries only), and the
\* earlier writer's record is in the store no more.
C22_LostUpdate ==
    \A p, q \in Procs :
        BothPersisted(p, q)
        => /\ Stored.run_id = loc[p].existing.run_id + 1
           /\ obs[p].written.run_id = obs[q].written.run_id
           /\ StageBackends \subseteq
                 {obs[p].invoked[i] : i \in 1..Len(obs[p].invoked)}
           /\ \E w \in {p, q} : \E e \in {p, q} \ {w} :
                 /\ WroteAfter(w, e)
                 /\ Stored = obs[w].written
                 /\ Stored.history = loc[w].existing.history \o Appended(w)
                 /\ \A k \in 1..Len(store) : store[k].id = Stored.id => store[k] = Stored
                 /\ obs[e].written # obs[w].written
                       => \A k \in 1..Len(store) : store[k] # obs[e].written

\* C22 witness: the two runs found different targets; the store holds the
\* later writer's target and entries and run_id + 1, the other's are gone.
C22_Witness ==
    \E p, q \in Procs :
        /\ BothPersisted(p, q)
        /\ WroteAfter(q, p)
        /\ obs[p].written.target = "Rho" /\ obs[q].written.target = "Unknown"
        /\ Stored = obs[q].written
        /\ Stored.run_id = loc[p].existing.run_id + 1
        /\ ~InSeq(PipelineHistory(loc[p].run_id, "Target Extraction", "Success", "Rho"),
                  Appended(q))
        /\ InSeq(PipelineHistory(loc[p].run_id, "Target Extraction", "Success", "Rho"),
                 Appended(p))

----------------------------------------------------------------------------
\* Call p is a re-run that has persisted.
RerunPersisted(p) == obs[p].writes > 0 /\ IsDoc(Prior(p))

\* Call p logged that it found no date.
NoDateFound(p) ==
    InSeq(PipelineHistory(loc[p].run_id, "Date Extraction", "Failed", "No date found"),
          OwnEntries(p))

\* C23. On reprocessing only id and history come from the stored record:
\* every derived field of the record persisted is the output of this run's
\* stage; no date found leaves date_published empty, and tags hold this
\* run's target or nothing.
C23_DerivedFieldsFromThisRun ==
    \A p \in Procs :
        RerunPersisted(p)
        => LET w == obs[p].written
           IN  /\ w.id = Prior(p).id
               /\ IsPrefix(Prior(p).history, w.history)
               /\ w.authors = AuthorsOf(loc[p].pdf)
               /\ w.title = TitleOf(loc[p].pdf)
               /\ w.per_slide_summary = SlidesOf(loc[p].pdf)
               /\ w.short_summary = obs[p].summaries[3]
               /\ w.target = loc[p].target
               /\ w.date_published
                     = (IF NoDateFound(p) THEN "None" ELSE DateOf(loc[p].pdf))
               /\ w.tags = (IF loc[p].target # "Unknown"
                            THEN <<loc[p].target>> ELSE <<>>)

----------------------------------------------------------------------------
\* Phase 1 of call p returned the value v / raised.
Phase1Returned(p) == obs[p].returned # <<>>
Phase1Raised(p) == obs[p].raised_stage = "Target Extraction"

\* Call p is past the point where phase 2 is decided / the tags are set.
Phase2Decided(p) == Phase1Returned(p) /\ pc[p] # "target2"
TagsDecided(p) == pc[p] \in {"date", "persist"} \/ InSeq("extract_date", obs[p].invoked)

\* C24. Two-phase target extraction: phase 2 is invoked at most once, and
\* exactly when phase 1 returned "Unknown" (never after phase 1 raised or
\* returned a target); the run appends its final target to the tags it
\* started with exactly when the target is not "Unknown".
C24_TwoPhaseTarget ==
    \A p \in Procs :
        LET phase2 == TimesInvoked(p, "extract_target_from_summary")
        IN  /\ phase2 <= 1
            /\ TimesInvoked(p, "extract_target_from_first_page") <= 1
            /\ phase2 = 1 => Phase1Returned(p) /\ obs[p].returned[1] = "Unknown"
            /\ Phase1Raised(p) => phase2 = 0 /\ pc[p] = "done"
            /\ Phase2Decided(p)
                  => phase2 = (IF obs[p].returned[1] = "Unknown" THEN 1 ELSE 0)
            /\ TagsDecided(p)
                  => /\ loc[p].document.target
                           = obs[p].returned[Len(obs[p].returned)]
                     /\ loc[p].document.tags
                           = Tags(Prior(p))
                               \o (IF loc[p].document.target # "Unknown"
                                   THEN <<loc[p].document.target>> ELSE <<>>)
            /\ (pc[p] = "done"
                    /\ obs[p].raised_stage = "Target Extraction from Summary")
                  => /\ loc[p].document.target = "Unknown"
                     /\ loc[p].document.tags = Tags(Prior(p))

\* C24 witness: phase 1 returned Unknown, phase 2 was invoked once and
\* found Rho, which is the tag of the document returned.
C24_Witness ==
    \E p \in Procs :
        /\ pc[p] = "done" /\ loc[p].result = "document"
        /\ obs[p].returned = <<"Unknown", "Rho">>
        /\ TimesInvoked(p, "extract_target_from_summary") = 1
        /\ loc[p].ret.target = "Rho"
        /\ loc[p].ret.tags = <<"Rho">>

----------------------------------------------------------------------------
\* Call p invoked phase 2 of the target extraction.
Phase2Invoked(p) == InSeq("extract_target_from_summary", obs[p].invoked)

\* C25 as stated: phase 2 gets the short summary of this run's Short
\* Summary stage and the topic of this run's Topic stage.
C25_Phase2GetsShortSummary ==
    \A p \in Procs :
        Phase2Invoked(p)
        => obs[p].phase2_input = <<obs[p].summaries[3], TitleOf(loc[p].pdf)>>

\* C25 amended: phase 2 gets the per-slide summaries of this run's Slide
\* stage joined by single spaces, and the topic of this run's Topic stage;
\* the short summary is not what it reads.
C25_Phase2GetsSlideSummaries ==
    \A p \in Procs :
        Phase2Invoked(p)
        => /\ obs[p].phase2_input
                 = <<SlidesOf(loc[p].pdf)[1] \o " " \o SlidesOf(loc[p].pdf)[2],
                     TitleOf(loc[p].pdf)>>
           /\ obs[p].phase2_input[1] # loc[p].document.short_summary
           /\ loc[p].document.short_summary = obs[p].summaries[3]

\* C25 witness: a re-run on changed bytes invoked phase 2 with the slide
\* summaries and the topic of the new bytes, not those stored.
C25_Witness ==
    \E p \in Procs :
        /\ Phase2Invoked(p)
        /\ IsDoc(Prior(p))
        /\ Prior(p).title = "Title h1"
        /\ obs[p].phase2_input = <<"slide one h2 slide two", "Title h2">>

----------------------------------------------------------------------------
\* C26. Bullet flattening is invoked only for a first reduction that is
\* over the threshold and has bullet structure; never for one within the
\* threshold.
C26_FlattenOnlyOverThreshold ==
    \A p \in Procs :
        TimesInvoked(p, "filter_bullets_summary") > 0
        => /\ count_words_nltk(obs[p].summaries[1]) > SHORT_SUMMARY_THRESHOLD
           /\ contains_bullet_points(obs[p].summaries[1])

----------------------------------------------------------------------------
\* The split the reduction is to make of its n slides.
LeadCount == Min(batch.k1, Len(batch.content))
TrailingCount == Min(batch.k2, Len(batch.content) - LeadCount)
MiddleCount == Len(batch.content) - LeadCount - TrailingCount

\* ceil(m / M) middle batches
MiddleBatches == (MiddleCount + batch.km - 1) \div batch.km

\* The batches in the order they are to be reduced: role and slides.
ExpectedBatches ==
    <<[role |-> "Lead", slides |-> SubSeq(batch.content, 1, LeadCount)]>>
    \o [i \in 1..MiddleBatches |->
           [role |-> "Middle",
            slides |-> SubSeq(batch.content,
                              LeadCount + (i - 1) * batch.km + 1,
                              Min(LeadCount + i * batch.km, LeadCount + MiddleCount))]]
    \o (IF TrailingCount > 0
        THEN <<[role |-> "Trailing",
                slides |-> SubSeq(batch.content,
                                  Len(batch.content) - TrailingCount + 1,
                                  Len(batch.content))]>>
        ELSE <<>>)

\* The text of a batch as the batch chain gets it, and the chain's answer.
BatchText(slides) ==
    Join(SelectSeq(slides, LAMBDA t : t # " "), "\n")
SummaryOf(b) == "batch[" \o BatchText(b.slides) \o "]"

\* The input of the final pass: the summaries in the order Lead,
\* Middle..., Trailing, one per line (an empty line for no Trailing batch).
ExpectedFinalInput ==
    Join(<<SummaryOf(ExpectedBatches[1])>>
            \o <<Join([i \in 1..MiddleBatches |-> SummaryOf(ExpectedBatches[1 + i])],
                      "\n")>>
            \o <<IF TrailingCount > 0
                 THEN SummaryOf(ExpectedBatches[Len(ExpectedBatches)]) ELSE "">>,
         "\n")

\* The reduction ran through: its last pass answered.
Completed == batch.pc = "done" /\ Len(batch.passes) = 2

\* C27. Pass order of generate_short_summary on a non-empty input: the
\* batch chain is invoked on Lead, on each Middle batch in slide order and
\* on Trailing when it is not empty, each once and in that order; then the
\* final chain once on their summaries in that order; then the refinement
\* chain once on the final summary, and its answer is returned.  Up to a
\* failing invocation the calls made are a prefix of that order.  An empty
\* or blank input gives the sentinel and no invocation.
C27_PassOrder ==
    /\ (batch.pc # "idle" /\ batch.pc # "start" /\ ~EmptyContent(batch.content))
       => /\ IsPrefix(batch.invoked, ExpectedBatches)
          /\ batch.passes # <<>>
                => /\ batch.invoked = ExpectedBatches
                   /\ batch.passes[1]
                         = [chain |-> "final", content |-> ExpectedFinalInput]
          /\ Len(batch.passes) <= 2
          /\ Len(batch.passes) = 2
                => /\ batch.passes[2]
                         = [chain |-> "refinement",
                            content |-> "final[" \o ExpectedFinalInput \o "]"]
                   /\ batch.pc = "done"
                   /\ batch.result
                         = "refinement[final[" \o ExpectedFinalInput \o "]]"
          /\ batch.pc = "final" => batch.invoked = ExpectedBatches
    /\ (batch.pc \notin {"idle", "start"} /\ EmptyContent(batch.content))
       => /\ batch.pc = "done"
          /\ batch.result = "Summary not available."
          /\ batch.invoked = <<>>
          /\ batch.passes = <<>>

\* C27 witness: four slides, one Lead, two Middle batches of one slide,
\* one Trailing, the final and the refinement pass, all answered.
C27_Witness ==
    /\ Completed
    /\ Len(batch.content) = 4 /\ batch.k1 = 1 /\ batch.k2 = 1 /\ batch.km = 1
    /\ [i \in 1..Len(batch.invoked) |-> batch.invoked[i].role]
          = <<"Lead", "Middle", "Middle", "Trailing">>
    /\ batch.result # "Unknown"

----------------------------------------------------------------------------
\* The seven stages, by the step name of their history entries.
Stages ==
    {"Author Extraction", "Topic Extraction", "Slide Extraction",
     "Short Summary Generation", "Target Extraction",
     "Target Extraction from Summary", "Date Extraction"}

\* Call p has left the stage: its backend was invoked and answered or raised.
LeftStage(p, stage) == InSeq(BackendOf(stage), obs[p].invoked)

\* Call p has an entry of its own run_id under the stage's name.
Logged(p, stage) ==
    \E i \in 1..Len(OwnEntries(p)) :
        /\ OwnEntries(p)[i].step = stage
        /\ OwnEntries(p)[i].run_id = loc[p].run_id

\* C28. Every stage a run has left, however it left it, has an entry of the
\* run under the stage's name in the working history, and the working
\* history is the stored history with entries appended.
C28_EveryStageLogged ==
    \A p \in Procs :
        /\ \A stage \in Stages : LeftStage(p, stage) => Logged(p, stage)
        /\ IsDoc(loc[p].existing)
              => IsPrefix(loc[p].existing.history, loc[p].document.history)
        /\ (~IsDoc(loc[p].existing) /\ IsDoc(loc[p].document))
              => loc[p].document.history = OwnEntries(p)

----------------------------------------------------------------------------
\* The run_ids along a history never go down and stay within `top`.
RunIdsOrdered(history, top) ==
    /\ \A i, j \in 1..Len(history) : i < j => history[i].run_id <= history[j].run_id
    /\ \A i \in 1..Len(history) : history[i].run_id \in 0..top

\* C29. run_id along the ledger (non-overlapping runs): in every stored
\* record the entries' run_ids are non-decreasing and at most the record's
\* run_id; a record written for a path without one has run_id 0; a write
\* over a stored record never lowers its run_id.
C29_RunIdMonotonic ==
    /\ \A k \in 1..Len(store) : RunIdsOrdered(store[k].history, store[k].run_id)
    /\ \A p \in Procs :
          obs[p].writes > 0
          => /\ RunIdsOrdered(obs[p].written.history, obs[p].written.run_id)
             /\ ~IsDoc(obs[p].replaced) => obs[p].written.run_id = 0
             /\ IsDoc(obs[p].replaced)
                   => /\ obs[p].written.run_id >= obs[p].replaced.run_id
                      /\ IsPrefix(obs[p].replaced.history, obs[p].written.history)

\* C29 witness: after three persisted runs the record has run_id 2 and
\* entries of the runs 0, 1 and 2.
C29_Witness ==
    /\ IsDoc(Stored)
    /\ Stored.run_id = 2
    /\ {Stored.history[i].run_id : i \in 1..Len(Stored.history)} = {0, 1, 2}
    /\ \E p \in Procs : obs[p].writes > 0 /\ obs[p].replaced.run_id = 1

----------------------------------------------------------------------------
\* C30. Under overlapping runs the stored history only grows: the history
\* a PERSIST writes has the history it replaces as a prefix.
C30_StoredHistoryGrows ==
    \A p \in Procs :
        (obs[p].writes > 0 /\ IsDoc(obs[p].replaced))
        => IsPrefix(obs[p].replaced.history, obs[p].written.history)

====
